---- MODULE Spec2Model ----
(***************************************************************************)
(* OTP / session state machine of the ESG Report authentication API        *)
(* (src/server/main.py and its variant src/server/newMain.py).             *)
(*                                                                         *)
(* Time is time.time() in whole seconds.  Every request handler is one     *)
(* atomic action (requests are served one after the other in Spec).        *)
(***************************************************************************)
EXTENDS Integers, Sequences, FiniteSets, TLC

\* ---------------------------------------------------------------- bounds
MaxRequests == 5                  \* requests served in one behaviour
TimePoints == {0, 300, 900, 901, 1800, 1801}   \* instants the clock shows

Threads == {1, 2}                 \* worker threads serving the requests

\* ------------------------------------------------------- input universes
Variants == {"main", "newMain"}
Emails == {"a@x.com"}
Names == {"Test User"}
Companies == {"Test Company"}
GenCodes == {"100000", "999999"}            \* results of generate_otp
SuppliedCodes == GenCodes \cup {"000000"}   \* request.otp
SendOutcomes == {"sent", "failed", "raised"}

None == "None"

\* ------------------------------------------------------ program constants
ACCESS_TOKEN_EXPIRE_MINUTES == 30
OTP_TTL == 300
RATE_WINDOW == 900
RATE_LIMIT == 3
MAX_ATTEMPTS == 3

VARIABLES
  variant,            \* which server file is running
  now,                \* time.time()
  otp_store,          \* email -> [code, expires, attempts, user_name, company]
  rate_limit_store,   \* email -> [last_request, count]
  user_sessions,      \* email -> [token, expires]
  issued,             \* every token the server has handed out
  resp,               \* the request just served and its response
  nreq,               \* number of requests served
  \* history of the run, written by no handler and read by none
  okVerify,           \* emails for which a /verify-otp met the success conditions
  loggedOut,          \* emails logged out and not verified again since
  createdAt,          \* email -> time the latest challenge was written
  sentCode,           \* email -> code of the latest challenge written
  wrongs,             \* email -> wrong codes submitted against the latest challenge
  admits,             \* email -> times of the admitted /send-otp requests (latest 3)
  windowStart,        \* email -> time of the admitted request that set count to 1
  failedSends,        \* email -> latest admitted /send-otp requests in a row that
                      \* ended in the rollback of lines 244-247
  \* used when the steps of /verify-otp handlers interleave (SpecConc)
  heap,               \* the challenge dicts ever stored, by object number
  ref,                \* email -> number of the dict otp_store holds for it
  thread,             \* worker thread -> its position and local variables
  uses,               \* per challenge dict: comparisons, session writes, 200s
  \* used when the steps of /send-otp handlers interleave (SpecSend)
  sender,             \* worker thread -> its position and local variables
  admitted            \* email -> /send-otp requests admitted in the current window

vars == <<variant, now, otp_store, rate_limit_store, user_sessions, issued,
          resp, nreq, okVerify, loggedOut, createdAt, sentCode, wrongs, admits,
          windowStart, failedSends, heap, ref, thread, uses, sender, admitted>>

cvars == <<heap, ref, thread, uses>>

svars == <<sender, admitted>>

\* ------------------------------------------------------------ dictionaries
Put(d, k, v) == [x \in (DOMAIN d) \cup {k} |-> IF x = k THEN v ELSE d[x]]
Del(d, k) == [x \in (DOMAIN d) \ {k} |-> d[x]]
EmptyDict == [x \in {} |-> None]

\* ------------------------------------------------------------------ tokens
\* A JWT is determined by its payload; sig says whether it is signed with
\* JWT_SECRET.  claims is <<name, company>> for a login token and <<>> for a
\* refresh token (whose payload has the subject only).
BadToken == [sub |-> None, exp |-> 0, claims |-> <<>>, sig |-> FALSE]

create_access_token(sub, claims, t) ==
  [sub |-> sub, exp |-> t + ACCESS_TOKEN_EXPIRE_MINUTES * 60,
   claims |-> claims, sig |-> TRUE]

\* jwt.decode: bad signature or exp reached -> PyJWTError -> None
TokenExpired(token, t) == token.exp <= t

verify_token(token, t) ==
  IF token.sig /\ ~TokenExpired(token, t) THEN token.sub ELSE None

\* ------------------------------------------------------------ rate limiter
\* variant of check_rate_limit that keeps the time of the first request of
\* the window instead of the time of the latest one
check_rate_limit_fixed(store, email, t) ==
  IF email \in DOMAIN store
  THEN IF t - store[email].last_request > RATE_WINDOW
       THEN [ok |-> TRUE,
             store |-> Put(store, email, [last_request |-> t, count |-> 1])]
       ELSE IF store[email].count >= RATE_LIMIT
       THEN [ok |-> FALSE, store |-> store]
       ELSE [ok |-> TRUE,
             store |-> Put(store, email,
                           [last_request |-> store[email].last_request,
                            count |-> store[email].count + 1])]
  ELSE [ok |-> TRUE,
        store |-> Put(store, email, [last_request |-> t, count |-> 1])]

\* variant of check_rate_limit whose limit test is off by one
check_rate_limit_offbyone(store, email, t) ==
  IF email \in DOMAIN store
  THEN IF t - store[email].last_request > RATE_WINDOW
       THEN [ok |-> TRUE,
             store |-> Put(store, email, [last_request |-> t, count |-> 1])]
       ELSE IF store[email].count > RATE_LIMIT
       THEN [ok |-> FALSE, store |-> store]
       ELSE [ok |-> TRUE,
             store |-> Put(store, email,
                           [last_request |-> t,
                            count |-> store[email].count + 1])]
  ELSE [ok |-> TRUE,
        store |-> Put(store, email, [last_request |-> t, count |-> 1])]

\* variant of check_rate_limit in which a denied request restarts the wait
check_rate_limit_penalize(store, email, t) ==
  IF email \in DOMAIN store
  THEN IF t - store[email].last_request > RATE_WINDOW
       THEN [ok |-> TRUE,
             store |-> Put(store, email, [last_request |-> t, count |-> 1])]
       ELSE IF store[email].count >= RATE_LIMIT
       THEN [ok |-> FALSE,
             store |-> Put(store, email,
                           [last_request |-> t,
                            count |-> store[email].count])]
       ELSE [ok |-> TRUE,
             store |-> Put(store, email,
                           [last_request |-> t,
                            count |-> store[email].count + 1])]
  ELSE [ok |-> TRUE,
        store |-> Put(store, email, [last_request |-> t, count |-> 1])]

\* variant of check_rate_limit that rolls the window over at 900 s exactly
check_rate_limit_inclusive(store, email, t) ==
  IF email \in DOMAIN store
  THEN IF t - store[email].last_request >= RATE_WINDOW
       THEN [ok |-> TRUE,
             store |-> Put(store, email, [last_request |-> t, count |-> 1])]
       ELSE IF store[email].count >= RATE_LIMIT
       THEN [ok |-> FALSE, store |-> store]
       ELSE [ok |-> TRUE,
             store |-> Put(store, email,
                           [last_request |-> t,
                            count |-> store[email].count + 1])]
  ELSE [ok |-> TRUE,
        store |-> Put(store, email, [last_request |-> t, count |-> 1])]

check_rate_limit(store, email, t) ==
  IF email \in DOMAIN store
  THEN IF t - store[email].last_request > RATE_WINDOW
       THEN [ok |-> TRUE,
             store |-> Put(store, email, [last_request |-> t, count |-> 1])]
       ELSE IF store[email].count >= RATE_LIMIT
       THEN [ok |-> FALSE, store |-> store]
       ELSE [ok |-> TRUE,
             store |-> Put(store, email,
                           [last_request |-> t,
                            count |-> store[email].count + 1])]
  ELSE [ok |-> TRUE,
        store |-> Put(store, email, [last_request |-> t, count |-> 1])]

\* --------------------------------------------------------------- responses
Msg(v, err) ==
  CASE err = "RateLimited" ->
         IF v = "main"
         THEN "Too many OTP requests. Please wait 15 minutes before trying again."
         ELSE "Too many OTP requests. Try again later."
    [] err = "SendFailed" -> "Failed to send email"
    [] err = "Unhandled" -> "Internal Server Error"
    [] err = "NoChallenge" ->
         IF v = "main" THEN "No OTP sent for this email" ELSE "No OTP sent"
    [] err = "Expired" ->
         IF v = "main" THEN "OTP has expired" ELSE "OTP expired"
    [] err = "AttemptsExhausted" ->
         IF v = "main"
         THEN "Too many failed attempts. Please request a new OTP."
         ELSE "Too many failed attempts"
    [] err = "Mismatch" -> "Invalid OTP"
    [] err = "InvalidToken" -> "Invalid or expired token"
    [] err = "NoSession" ->
         IF v = "main" THEN "Session not found" ELSE "Invalid or expired token"
    [] err = "NoSessionRefresh" ->
         IF v = "main" THEN "No active session found" ELSE "No active session"
    [] err = "SessionExpired" -> "Session expired"
    [] OTHER -> "ok"

Response(op, email, token, otp, status, err, access_token) ==
  [op |-> op, email |-> email, token |-> token, otp |-> otp,
   status |-> status, err |-> err, detail |-> Msg(variant, err),
   access_token |-> access_token]

\* ----------------------------------------------------------------- /send-otp
\* outcome is what send_email does: "sent" returns True, "failed" returns
\* False (the transport raised inside its try block), "raised" lets an
\* exception escape (main.py: formataddr with SMTP_USER unset, lines 176-179;
\* newMain.py: get_gmail_service, line 129), which the framework answers
\* with 500 without running the rest of the handler.
send_otp_result(store, email, name, company, otp, outcome, t) ==
  LET written == Put(store, email,
                     [code |-> otp, expires |-> t + OTP_TTL, attempts |-> 0,
                      user_name |-> name, company |-> company])
  IN CASE outcome = "sent" ->
            [otp_store |-> written, status |-> 200, err |-> "ok"]
       [] outcome = "failed" ->
            [otp_store |-> Del(written, email), status |-> 500,
             err |-> "SendFailed"]
       [] OTHER ->
            [otp_store |-> written, status |-> 500, err |-> "Unhandled"]

\* variant of send_otp whose rollback also takes back the counted request
send_otp_refund(email, name, company, otp, outcome) ==
  LET rl == check_rate_limit(rate_limit_store, email, now)
      r == send_otp_result(otp_store, email, name, company, otp, outcome, now)
  IN /\ nreq < MaxRequests
     /\ nreq' = nreq + 1
     /\ rate_limit_store' = IF rl.ok /\ outcome = "failed"
                          THEN rate_limit_store ELSE rl.store
     /\ IF ~rl.ok
        THEN /\ otp_store' = otp_store
             /\ resp' = Response("send-otp", email, BadToken, None, 429,
                                 "RateLimited", BadToken)
             /\ UNCHANGED <<createdAt, sentCode, wrongs, admits, windowStart,
                            failedSends>>
        ELSE /\ otp_store' = r.otp_store
             /\ resp' = Response("send-otp", email, BadToken, None, r.status,
                                 r.err, BadToken)
             /\ createdAt' = [createdAt EXCEPT ![email] = now]
             /\ sentCode' = [sentCode EXCEPT ![email] = otp]
             /\ wrongs' = [wrongs EXCEPT ![email] = 0]
             /\ admits' = [admits EXCEPT ![email] =
                             IF Len(@) < 3 THEN Append(@, now)
                             ELSE Append(Tail(@), now)]
             /\ windowStart' = [windowStart EXCEPT ![email] =
                                  IF rl.store[email].count = 1 THEN now ELSE @]
             /\ failedSends' = [failedSends EXCEPT ![email] =
                                  IF outcome = "failed" THEN @ + 1 ELSE 0]
     /\ UNCHANGED <<variant, now, user_sessions, issued, okVerify, loggedOut>>

send_otp(email, name, company, otp, outcome) ==
  LET rl == check_rate_limit(rate_limit_store, email, now)
      r == send_otp_result(otp_store, email, name, company, otp, outcome, now)
  IN /\ nreq < MaxRequests
     /\ nreq' = nreq + 1
     /\ rate_limit_store' = rl.store
     /\ IF ~rl.ok
        THEN /\ otp_store' = otp_store
             /\ resp' = Response("send-otp", email, BadToken, None, 429,
                                 "RateLimited", BadToken)
             /\ UNCHANGED <<createdAt, sentCode, wrongs, admits, windowStart,
                            failedSends>>
        ELSE /\ otp_store' = r.otp_store
             /\ resp' = Response("send-otp", email, BadToken, None, r.status,
                                 r.err, BadToken)
             /\ createdAt' = [createdAt EXCEPT ![email] = now]
             /\ sentCode' = [sentCode EXCEPT ![email] = otp]
             /\ wrongs' = [wrongs EXCEPT ![email] = 0]
             /\ admits' = [admits EXCEPT ![email] =
                             IF Len(@) < 3 THEN Append(@, now)
                             ELSE Append(Tail(@), now)]
             /\ windowStart' = [windowStart EXCEPT ![email] =
                                  IF rl.store[email].count = 1 THEN now ELSE @]
             /\ failedSends' = [failedSends EXCEPT ![email] =
                                  IF outcome = "failed" THEN @ + 1 ELSE 0]
     /\ UNCHANGED <<variant, now, user_sessions, issued, okVerify, loggedOut>>

\* --------------------------------------------------------------- /verify-otp
\* variant of OtpExpired that allows the TTL a second time
OtpExpired_late(record, t) == t - record.expires > OTP_TTL

OtpExpired(record, t) == t > record.expires

\* variants of AttemptsExhausted: one attempt too many, one too few
AttemptsExhausted_late(record) == record.attempts > MAX_ATTEMPTS

AttemptsExhausted_early(record) == record.attempts >= MAX_ATTEMPTS - 1

AttemptsExhausted(record) == record.attempts >= MAX_ATTEMPTS

\* variant of verify_otp_result that checks the format of the code only
verify_otp_result_anycode(store, sessions, email, otp, t) ==
  IF email \notin DOMAIN store
  THEN [otp_store |-> store, user_sessions |-> sessions, status |-> 400,
        err |-> "NoChallenge", access_token |-> BadToken]
  ELSE LET record == store[email]
           charged == [record EXCEPT !.attempts = @ + 1]
           access_token ==
             create_access_token(email, <<record.user_name, record.company>>, t)
       IN IF OtpExpired(record, t)
          THEN [otp_store |-> Del(store, email), user_sessions |-> sessions,
                status |-> 400, err |-> "Expired", access_token |-> BadToken]
          ELSE IF AttemptsExhausted(record)
          THEN [otp_store |-> Del(store, email), user_sessions |-> sessions,
                status |-> 400, err |-> "AttemptsExhausted",
                access_token |-> BadToken]
          ELSE IF otp \notin GenCodes
          THEN [otp_store |-> Put(store, email, charged),
                user_sessions |-> sessions, status |-> 400,
                err |-> "Mismatch", access_token |-> BadToken]
          ELSE [otp_store |-> Del(store, email),
                user_sessions |->
                  Put(sessions, email,
                      [token |-> access_token,
                       expires |-> t + ACCESS_TOKEN_EXPIRE_MINUTES * 60]),
                status |-> 200, err |-> "ok", access_token |-> access_token]

\* variant of verify_otp_result that leaves an expired challenge in place
verify_otp_result_keepexpired(store, sessions, email, otp, t) ==
  IF email \notin DOMAIN store
  THEN [otp_store |-> store, user_sessions |-> sessions, status |-> 400,
        err |-> "NoChallenge", access_token |-> BadToken]
  ELSE LET record == store[email]
           charged == [record EXCEPT !.attempts = @ + 1]
           access_token ==
             create_access_token(email, <<record.user_name, record.company>>, t)
       IN IF OtpExpired(record, t)
          THEN [otp_store |-> store, user_sessions |-> sessions,
                status |-> 400, err |-> "Expired", access_token |-> BadToken]
          ELSE IF AttemptsExhausted(record)
          THEN [otp_store |-> Del(store, email), user_sessions |-> sessions,
                status |-> 400, err |-> "AttemptsExhausted",
                access_token |-> BadToken]
          ELSE IF otp # record.code
          THEN [otp_store |-> Put(store, email, charged),
                user_sessions |-> sessions, status |-> 400,
                err |-> "Mismatch", access_token |-> BadToken]
          ELSE [otp_store |-> Del(store, email),
                user_sessions |->
                  Put(sessions, email,
                      [token |-> access_token,
                       expires |-> t + ACCESS_TOKEN_EXPIRE_MINUTES * 60]),
                status |-> 200, err |-> "ok", access_token |-> access_token]

\* variant of verify_otp_result that tests the attempts before the expiry
verify_otp_result_swapped(store, sessions, email, otp, t) ==
  IF email \notin DOMAIN store
  THEN [otp_store |-> store, user_sessions |-> sessions, status |-> 400,
        err |-> "NoChallenge", access_token |-> BadToken]
  ELSE LET record == store[email]
           charged == [record EXCEPT !.attempts = @ + 1]
           access_token ==
             create_access_token(email, <<record.user_name, record.company>>, t)
       IN IF AttemptsExhausted(record)
          THEN [otp_store |-> Del(store, email), user_sessions |-> sessions,
                status |-> 400, err |-> "AttemptsExhausted", access_token |-> BadToken]
          ELSE IF OtpExpired(record, t)
          THEN [otp_store |-> Del(store, email), user_sessions |-> sessions,
                status |-> 400, err |-> "Expired",
                access_token |-> BadToken]
          ELSE IF otp # record.code
          THEN [otp_store |-> Put(store, email, charged),
                user_sessions |-> sessions, status |-> 400,
                err |-> "Mismatch", access_token |-> BadToken]
          ELSE [otp_store |-> Del(store, email),
                user_sessions |->
                  Put(sessions, email,
                      [token |-> access_token,
                       expires |-> t + ACCESS_TOKEN_EXPIRE_MINUTES * 60]),
                status |-> 200, err |-> "ok", access_token |-> access_token]

verify_otp_result(store, sessions, email, otp, t) ==
  IF email \notin DOMAIN store
  THEN [otp_store |-> store, user_sessions |-> sessions, status |-> 400,
        err |-> "NoChallenge", access_token |-> BadToken]
  ELSE LET record == store[email]
           charged == [record EXCEPT !.attempts = @ + 1]
           access_token ==
             create_access_token(email, <<record.user_name, record.company>>, t)
       IN IF OtpExpired(record, t)
          THEN [otp_store |-> Del(store, email), user_sessions |-> sessions,
                status |-> 400, err |-> "Expired", access_token |-> BadToken]
          ELSE IF AttemptsExhausted(record)
          THEN [otp_store |-> Del(store, email), user_sessions |-> sessions,
                status |-> 400, err |-> "AttemptsExhausted",
                access_token |-> BadToken]
          ELSE IF otp # record.code
          THEN [otp_store |-> Put(store, email, charged),
                user_sessions |-> sessions, status |-> 400,
                err |-> "Mismatch", access_token |-> BadToken]
          ELSE [otp_store |-> Del(store, email),
                user_sessions |->
                  Put(sessions, email,
                      [token |-> access_token,
                       expires |-> t + ACCESS_TOKEN_EXPIRE_MINUTES * 60]),
                status |-> 200, err |-> "ok", access_token |-> access_token]

verify_otp(email, otp) ==
  LET r == verify_otp_result(otp_store, user_sessions, email, otp, now)
      pending == email \in DOMAIN otp_store
  IN /\ nreq < MaxRequests
     /\ nreq' = nreq + 1
     /\ otp_store' = r.otp_store
     /\ user_sessions' = r.user_sessions
     /\ issued' = IF r.status = 200 THEN issued \cup {r.access_token} ELSE issued
     /\ resp' = Response("verify-otp", email, BadToken, otp, r.status, r.err,
                         r.access_token)
     /\ okVerify' =
          IF /\ pending
             /\ otp = otp_store[email].code
             /\ now <= createdAt[email] + 300
             /\ otp_store[email].attempts < 3
          THEN okVerify \cup {email} ELSE okVerify
     /\ loggedOut' = IF r.status = 200 THEN loggedOut \ {email} ELSE loggedOut
     /\ wrongs' = IF pending /\ otp # otp_store[email].code
                  THEN [wrongs EXCEPT ![email] = @ + 1] ELSE wrongs
     /\ UNCHANGED <<variant, now, rate_limit_store, createdAt, sentCode,
                    admits, windowStart, failedSends>>

\* ------------------------------------------------------------- /verify-token
\* variant of SessionExpired that expires the session at the instant itself
SessionExpired_inclusive(session, t) == t >= session.expires

SessionExpired(session, t) == t > session.expires

\* variant of verify_token_result that trusts the signature alone
verify_token_result_nosession(sessions, token, t) ==
  IF verify_token(token, t) = None
  THEN [user_sessions |-> sessions, status |-> 401, err |-> "InvalidToken"]
  ELSE [user_sessions |-> sessions, status |-> 200, err |-> "ok"]

verify_token_result(sessions, token, t) ==
  LET email == verify_token(token, t)
  IN IF email = None
     THEN [user_sessions |-> sessions, status |-> 401, err |-> "InvalidToken"]
     ELSE IF email \notin DOMAIN sessions
     THEN [user_sessions |-> sessions, status |-> 401, err |-> "NoSession"]
     ELSE IF SessionExpired(sessions[email], t)
     THEN [user_sessions |-> Del(sessions, email), status |-> 401,
           err |-> "SessionExpired"]
     ELSE [user_sessions |-> sessions, status |-> 200, err |-> "ok"]

verify_token_endpoint(token) ==
  LET r == verify_token_result(user_sessions, token, now)
  IN /\ nreq < MaxRequests
     /\ nreq' = nreq + 1
     /\ user_sessions' = r.user_sessions
     /\ resp' = Response("verify-token", verify_token(token, now), token, None,
                         r.status, r.err, BadToken)
     /\ UNCHANGED <<variant, now, otp_store, rate_limit_store, issued,
                    okVerify, loggedOut, createdAt, sentCode, wrongs, admits,
                    windowStart, failedSends>>

\* ------------------------------------------------------------ /refresh-token
\* variant of refresh_token_result without the lookup of the session
refresh_token_result_create(sessions, email, t) ==
  LET access_token == create_access_token(email, <<>>, t)
  IN [user_sessions |->
        Put(sessions, email,
            [token |-> access_token,
             expires |-> t + ACCESS_TOKEN_EXPIRE_MINUTES * 60]),
      status |-> 200, err |-> "ok", access_token |-> access_token]

refresh_token_result(sessions, email, t) ==
  LET access_token == create_access_token(email, <<>>, t)
  IN IF email \notin DOMAIN sessions
     THEN [user_sessions |-> sessions, status |-> 401,
           err |-> "NoSessionRefresh", access_token |-> BadToken]
     ELSE IF SessionExpired(sessions[email], t)
     THEN [user_sessions |-> Del(sessions, email), status |-> 401,
           err |-> "SessionExpired", access_token |-> BadToken]
     ELSE [user_sessions |->
             Put(sessions, email,
                 [token |-> access_token,
                  expires |-> t + ACCESS_TOKEN_EXPIRE_MINUTES * 60]),
           status |-> 200, err |-> "ok", access_token |-> access_token]

refresh_token(email) ==
  LET r == refresh_token_result(user_sessions, email, now)
  IN /\ nreq < MaxRequests
     /\ nreq' = nreq + 1
     /\ user_sessions' = r.user_sessions
     /\ issued' = IF r.status = 200 THEN issued \cup {r.access_token} ELSE issued
     /\ resp' = Response("refresh-token", email, BadToken, None, r.status,
                         r.err, r.access_token)
     /\ UNCHANGED <<variant, now, otp_store, rate_limit_store, okVerify,
                    loggedOut, createdAt, sentCode, wrongs, admits,
                    windowStart, failedSends>>

\* -------------------------------------------------------------------- /logout
\* variant of logout_result that reads the subject without checking the expiry
logout_result_unverified(sessions, token, t) ==
  IF token.sig /\ token.sub \in DOMAIN sessions
  THEN Del(sessions, token.sub) ELSE sessions

\* variant of logout_result that forgets to delete the session
logout_result_keep(sessions, token, t) == sessions

logout_result(sessions, token, t) ==
  LET email == verify_token(token, t)
  IN IF email # None /\ email \in DOMAIN sessions
     THEN Del(sessions, email) ELSE sessions

logout(token) ==
  LET email == verify_token(token, now)
  IN /\ nreq < MaxRequests
     /\ nreq' = nreq + 1
     /\ user_sessions' = logout_result(user_sessions, token, now)
     /\ resp' = Response("logout", email, token, None, 200, "ok", BadToken)
     /\ loggedOut' = IF token.sig /\ now < token.exp
                     THEN loggedOut \cup {token.sub} ELSE loggedOut
     /\ UNCHANGED <<variant, now, otp_store, rate_limit_store, issued,
                    okVerify, createdAt, sentCode, wrongs, admits,
                    windowStart, failedSends>>

\* --------------------------------------------------------------------- clock
Tick(t) ==
  /\ t > now
  /\ now' = t
  /\ resp' = Response("tick", None, BadToken, None, 0, "ok", BadToken)
  /\ UNCHANGED <<variant, otp_store, rate_limit_store, user_sessions, issued,
                 nreq, okVerify, loggedOut, createdAt, sentCode, wrongs,
                 admits, windowStart, failedSends>>

\* ------------------------------------------------------------- specification
Init ==
  /\ variant \in Variants
  /\ now = 0
  /\ otp_store = EmptyDict
  /\ rate_limit_store = EmptyDict
  /\ user_sessions = EmptyDict
  /\ issued = {}
  /\ resp = [op |-> "start", email |-> None, token |-> BadToken, otp |-> None,
             status |-> 0, err |-> "ok", detail |-> "ok",
             access_token |-> BadToken]
  /\ nreq = 0
  /\ okVerify = {}
  /\ loggedOut = {}
  /\ createdAt = [e \in Emails |-> -1]
  /\ sentCode = [e \in Emails |-> None]
  /\ wrongs = [e \in Emails |-> 0]
  /\ admits = [e \in Emails |-> <<>>]
  /\ windowStart = [e \in Emails |-> -1]
  /\ failedSends = [e \in Emails |-> 0]
  /\ heap = <<>>
  /\ ref = EmptyDict
  /\ thread = [t \in Threads |->
                [pc |-> "idle", email |-> None, otp |-> None, record |-> 0,
                 attempts |-> 0, access_token |-> BadToken]]
  /\ uses = <<>>
  /\ sender = [t \in Threads |->
                [pc |-> "idle", email |-> None, name |-> None,
                 company |-> None, otp |-> None, current_time |-> 0,
                 last_request |-> 0, count |-> 0]]
  /\ admitted = [e \in Emails |-> 0]

SendOtp ==
  \E email \in Emails, name \in Names, company \in Companies,
     otp \in GenCodes, outcome \in SendOutcomes :
    send_otp(email, name, company, otp, outcome) /\ UNCHANGED <<cvars, svars>>

VerifyOtp ==
  \E email \in Emails, otp \in SuppliedCodes :
    verify_otp(email, otp) /\ UNCHANGED <<cvars, svars>>

VerifyToken ==
  \E token \in issued \cup {BadToken} :
    verify_token_endpoint(token) /\ UNCHANGED <<cvars, svars>>

RefreshToken == \E email \in Emails : refresh_token(email) /\ UNCHANGED <<cvars, svars>>

Logout == \E token \in issued \cup {BadToken} : logout(token) /\ UNCHANGED <<cvars, svars>>

Advance == \E t \in TimePoints : Tick(t) /\ UNCHANGED <<cvars, svars>>

Next ==
  \/ SendOtp
  \/ VerifyOtp
  \/ VerifyToken
  \/ RefreshToken
  \/ Logout
  \/ Advance

Spec == Init /\ [][Next]_vars

\* ------------------------------------------------ interleaved /verify-otp
\* The endpoints are plain def functions, which the framework runs on worker
\* threads; nothing in the handlers takes a lock.  Each thread executes
\* verify_otp statement by statement, and record["attempts"] += 1 as a read
\* followed by a write.  record is a reference to the dict found at line 254,
\* which stays the same object after it is deleted from otp_store.
\* The requests of an interleaved run overlap at one instant of the clock.
StoreView(h, r) == [e \in DOMAIN r |-> h[r[e]]]

histvars == <<okVerify, loggedOut, createdAt, sentCode, wrongs, admits,
              windowStart, failedSends>>

Idle == [pc |-> "idle", email |-> None, otp |-> None, record |-> 0,
         attempts |-> 0, access_token |-> BadToken]

\* the handler of thread t returns or raises
Respond(t, status, err, access_token) ==
  /\ resp' = Response("verify-otp", thread[t].email, BadToken, thread[t].otp,
                      status, err, access_token)
  /\ thread' = [thread EXCEPT ![t] = Idle]

\* del otp_store[request.email] (main.py) raises KeyError when another
\* thread has already removed the key; otp_store.pop(request.email, None)
\* (newMain.py) does not.
DelRaises(email) == variant = "main" /\ email \notin DOMAIN ref

\* /send-otp served in one piece; the dict it stores is a new object
conc_send_otp(email, name, company, otp, outcome) ==
  /\ send_otp(email, name, company, otp, outcome)
  /\ IF ~check_rate_limit(rate_limit_store, email, now).ok
     THEN UNCHANGED <<heap, ref, uses>>
     ELSE IF outcome = "failed"
     THEN ref' = Del(ref, email) /\ UNCHANGED <<heap, uses>>
     ELSE /\ heap' = Append(heap, [code |-> otp, expires |-> now + OTP_TTL,
                                   attempts |-> 0, user_name |-> name,
                                   company |-> company])
          /\ ref' = Put(ref, email, Len(heap) + 1)
          /\ uses' = Append(uses, [compared |-> 0, written |-> 0, ok |-> 0])
  /\ UNCHANGED <<thread, svars>>

\* lines 254-256
vo_get(t, email, otp) ==
  /\ thread[t].pc = "idle"
  /\ nreq < MaxRequests
  /\ nreq' = nreq + 1
  /\ IF email \notin DOMAIN ref
     THEN /\ resp' = Response("verify-otp", email, BadToken, otp, 400,
                              "NoChallenge", BadToken)
          /\ UNCHANGED thread
     ELSE /\ thread' = [thread EXCEPT ![t] =
                          [Idle EXCEPT !.pc = "expiry", !.email = email,
                                       !.otp = otp, !.record = ref[email]]]
          /\ UNCHANGED resp
  /\ UNCHANGED <<variant, now, otp_store, rate_limit_store, user_sessions,
                 issued, heap, ref, uses>>
  /\ UNCHANGED <<histvars, svars>>

\* lines 259-261
vo_expiry(t) ==
  /\ thread[t].pc = "expiry"
  /\ IF OtpExpired(heap[thread[t].record], now)
     THEN /\ ref' = Del(ref, thread[t].email)
          /\ otp_store' = StoreView(heap, ref')
          /\ IF DelRaises(thread[t].email)
             THEN Respond(t, 500, "Unhandled", BadToken)
             ELSE Respond(t, 400, "Expired", BadToken)
     ELSE /\ thread' = [thread EXCEPT ![t].pc = "attempts"]
          /\ UNCHANGED <<ref, otp_store, resp>>
  /\ UNCHANGED <<variant, now, rate_limit_store, user_sessions, issued, nreq,
                 heap, uses>>
  /\ UNCHANGED <<histvars, svars>>

\* lines 264-266
vo_attempts(t) ==
  /\ thread[t].pc = "attempts"
  /\ IF AttemptsExhausted(heap[thread[t].record])
     THEN /\ ref' = Del(ref, thread[t].email)
          /\ otp_store' = StoreView(heap, ref')
          /\ IF DelRaises(thread[t].email)
             THEN Respond(t, 500, "Unhandled", BadToken)
             ELSE Respond(t, 400, "AttemptsExhausted", BadToken)
     ELSE /\ thread' = [thread EXCEPT ![t].pc = "load"]
          /\ UNCHANGED <<ref, otp_store, resp>>
  /\ UNCHANGED <<variant, now, rate_limit_store, user_sessions, issued, nreq,
                 heap, uses>>
  /\ UNCHANGED <<histvars, svars>>

\* line 269, the read of record["attempts"]
vo_load(t) ==
  /\ thread[t].pc = "load"
  /\ thread' = [thread EXCEPT ![t].pc = "store",
                              ![t].attempts = heap[thread[t].record].attempts]
  /\ UNCHANGED <<variant, now, otp_store, rate_limit_store, user_sessions,
                 issued, resp, nreq, heap, ref, uses>>
  /\ UNCHANGED <<histvars, svars>>

\* line 269, the write of record["attempts"]
vo_store(t) ==
  /\ thread[t].pc = "store"
  /\ heap' = [heap EXCEPT ![thread[t].record].attempts = thread[t].attempts + 1]
  /\ otp_store' = StoreView(heap', ref)
  /\ thread' = [thread EXCEPT ![t].pc = "compare"]
  /\ UNCHANGED <<variant, now, rate_limit_store, user_sessions, issued, resp,
                 nreq, ref, uses>>
  /\ UNCHANGED <<histvars, svars>>

\* lines 272-273
vo_compare(t) ==
  /\ thread[t].pc = "compare"
  /\ uses' = [uses EXCEPT ![thread[t].record].compared = @ + 1]
  /\ IF thread[t].otp # heap[thread[t].record].code
     THEN Respond(t, 400, "Mismatch", BadToken)
     ELSE /\ thread' = [thread EXCEPT ![t].pc = "session"]
          /\ UNCHANGED resp
  /\ UNCHANGED <<variant, now, otp_store, rate_limit_store, user_sessions,
                 issued, nreq, heap, ref>>
  /\ UNCHANGED <<histvars, svars>>

\* lines 276-284
vo_session(t) ==
  LET record == heap[thread[t].record]
      access_token ==
        create_access_token(thread[t].email,
                            <<record.user_name, record.company>>, now)
  IN /\ thread[t].pc = "session"
     /\ user_sessions' =
          Put(user_sessions, thread[t].email,
              [token |-> access_token,
               expires |-> now + ACCESS_TOKEN_EXPIRE_MINUTES * 60])
     /\ issued' = issued \cup {access_token}
     /\ uses' = [uses EXCEPT ![thread[t].record].written = @ + 1]
     /\ thread' = [thread EXCEPT ![t].pc = "cleanup",
                                 ![t].access_token = access_token]
     /\ UNCHANGED <<variant, now, otp_store, rate_limit_store, resp, nreq,
                    heap, ref>>
     /\ UNCHANGED <<histvars, svars>>

\* lines 287-300
vo_cleanup(t) ==
  /\ thread[t].pc = "cleanup"
  /\ ref' = Del(ref, thread[t].email)
  /\ otp_store' = StoreView(heap, ref')
  /\ IF DelRaises(thread[t].email)
     THEN Respond(t, 500, "Unhandled", BadToken) /\ UNCHANGED uses
     ELSE /\ Respond(t, 200, "ok", thread[t].access_token)
          /\ uses' = [uses EXCEPT ![thread[t].record].ok = @ + 1]
  /\ UNCHANGED <<variant, now, rate_limit_store, user_sessions, issued, nreq,
                 heap>>
  /\ UNCHANGED <<histvars, svars>>

ConcSendOtp ==
  \E email \in Emails, name \in Names, company \in Companies,
     otp \in GenCodes, outcome \in SendOutcomes :
    conc_send_otp(email, name, company, otp, outcome)

VoGet == \E t \in Threads, email \in Emails, otp \in SuppliedCodes :
           vo_get(t, email, otp)

VoExpiry == \E t \in Threads : vo_expiry(t)

VoAttempts == \E t \in Threads : vo_attempts(t)

VoLoad == \E t \in Threads : vo_load(t)

VoStore == \E t \in Threads : vo_store(t)

VoCompare == \E t \in Threads : vo_compare(t)

VoSession == \E t \in Threads : vo_session(t)

VoCleanup == \E t \in Threads : vo_cleanup(t)

NextConc ==
  \/ ConcSendOtp
  \/ VoGet
  \/ VoExpiry
  \/ VoAttempts
  \/ VoLoad
  \/ VoStore
  \/ VoCompare
  \/ VoSession
  \/ VoCleanup

SpecConc == Init /\ [][NextConc]_vars

\* --------------------------------------------------- interleaved /send-otp
\* Each thread executes send_otp and the check_rate_limit it calls statement
\* by statement, and rate_limit_store[email]["count"] += 1 as a read followed
\* by a write.  The requests overlap at one instant of the clock, so the
\* roll-over at line 99 never replaces the dict that lines 107-108 update.
SenderIdle == [pc |-> "idle", email |-> None, name |-> None, company |-> None,
               otp |-> None, current_time |-> 0, last_request |-> 0,
               count |-> 0]

\* the handler of thread t returns or raises
SendRespond(t, status, err) ==
  /\ resp' = Response("send-otp", sender[t].email, BadToken, None, status,
                      err, BadToken)
  /\ sender' = [sender EXCEPT ![t] = SenderIdle]

\* everything a step of /send-otp leaves alone besides the three stores
sframe == <<variant, now, user_sessions, issued, okVerify, loggedOut,
            createdAt, sentCode, wrongs, admits, windowStart, failedSends,
            cvars>>

\* lines 92-93 (and 220, the call)
rl_in(t, email, name, company) ==
  /\ sender[t].pc = "idle"
  /\ nreq < MaxRequests
  /\ nreq' = nreq + 1
  /\ sender' = [sender EXCEPT ![t] =
                  [SenderIdle EXCEPT
                     !.pc = IF email \in DOMAIN rate_limit_store
                            THEN "last" ELSE "init",
                     !.email = email, !.name = name, !.company = company,
                     !.current_time = now]]
  /\ UNCHANGED <<otp_store, rate_limit_store, resp, admitted>>
  /\ UNCHANGED sframe

\* line 94
rl_last(t) ==
  /\ sender[t].pc = "last"
  /\ sender' = [sender EXCEPT
                  ![t].pc = "count",
                  ![t].last_request =
                     rate_limit_store[sender[t].email].last_request]
  /\ UNCHANGED <<otp_store, rate_limit_store, resp, nreq, admitted>>
  /\ UNCHANGED sframe

\* line 95
rl_count(t) ==
  /\ sender[t].pc = "count"
  /\ sender' = [sender EXCEPT
                  ![t].pc = "test",
                  ![t].count = rate_limit_store[sender[t].email].count]
  /\ UNCHANGED <<otp_store, rate_limit_store, resp, nreq, admitted>>
  /\ UNCHANGED sframe

\* lines 98-104, and 220-224 when the limiter returns False
rl_test(t) ==
  LET email == sender[t].email
  IN /\ sender[t].pc = "test"
     /\ IF sender[t].current_time - sender[t].last_request > RATE_WINDOW
        THEN /\ rate_limit_store' =
                  Put(rate_limit_store, email,
                      [last_request |-> sender[t].current_time, count |-> 1])
             /\ admitted' = [admitted EXCEPT ![email] = 1]
             /\ sender' = [sender EXCEPT ![t].pc = "write"]
             /\ UNCHANGED resp
        ELSE IF sender[t].count >= RATE_LIMIT
        THEN /\ SendRespond(t, 429, "RateLimited")
             /\ UNCHANGED <<rate_limit_store, admitted>>
        ELSE /\ sender' = [sender EXCEPT ![t].pc = "load"]
             /\ UNCHANGED <<rate_limit_store, admitted, resp>>
     /\ UNCHANGED <<otp_store, nreq>>
     /\ UNCHANGED sframe

\* line 107, the read of rate_limit_store[email]["count"]
rl_load(t) ==
  /\ sender[t].pc = "load"
  /\ sender' = [sender EXCEPT
                  ![t].pc = "store",
                  ![t].count = rate_limit_store[sender[t].email].count]
  /\ UNCHANGED <<otp_store, rate_limit_store, resp, nreq, admitted>>
  /\ UNCHANGED sframe

\* line 107, the write of rate_limit_store[email]["count"]
rl_store(t) ==
  /\ sender[t].pc = "store"
  /\ rate_limit_store' =
       [rate_limit_store EXCEPT ![sender[t].email].count = sender[t].count + 1]
  /\ sender' = [sender EXCEPT ![t].pc = "stamp"]
  /\ UNCHANGED <<otp_store, resp, nreq, admitted>>
  /\ UNCHANGED sframe

\* lines 108 and 112
rl_stamp(t) ==
  /\ sender[t].pc = "stamp"
  /\ rate_limit_store' =
       [rate_limit_store EXCEPT
          ![sender[t].email].last_request = sender[t].current_time]
  /\ admitted' = [admitted EXCEPT ![sender[t].email] = @ + 1]
  /\ sender' = [sender EXCEPT ![t].pc = "write"]
  /\ UNCHANGED <<otp_store, resp, nreq>>
  /\ UNCHANGED sframe

\* lines 110 and 112
rl_init(t) ==
  /\ sender[t].pc = "init"
  /\ rate_limit_store' =
       Put(rate_limit_store, sender[t].email,
           [last_request |-> sender[t].current_time, count |-> 1])
  /\ admitted' = [admitted EXCEPT ![sender[t].email] = @ + 1]
  /\ sender' = [sender EXCEPT ![t].pc = "write"]
  /\ UNCHANGED <<otp_store, resp, nreq>>
  /\ UNCHANGED sframe

\* lines 227-234
so_write(t, otp) ==
  /\ sender[t].pc = "write"
  /\ otp_store' =
       Put(otp_store, sender[t].email,
           [code |-> otp, expires |-> now + OTP_TTL, attempts |-> 0,
            user_name |-> sender[t].name, company |-> sender[t].company])
  /\ sender' = [sender EXCEPT ![t].pc = "send", ![t].otp = otp]
  /\ UNCHANGED <<rate_limit_store, resp, nreq, admitted>>
  /\ UNCHANGED sframe

\* lines 237-243: send_email returns True, returns False, or raises
so_send(t, outcome) ==
  /\ sender[t].pc = "send"
  /\ CASE outcome = "sent" -> SendRespond(t, 200, "ok")
       [] outcome = "failed" ->
            /\ sender' = [sender EXCEPT ![t].pc = "rollback"]
            /\ UNCHANGED resp
       [] OTHER -> SendRespond(t, 500, "Unhandled")
  /\ UNCHANGED <<otp_store, rate_limit_store, nreq, admitted>>
  /\ UNCHANGED sframe

\* main.py line 245, the membership test; newMain.py lines 175-176, where
\* otp_store.pop(request.email, None) removes the key in one call
so_rollback(t) ==
  /\ sender[t].pc = "rollback"
  /\ IF variant = "main"
     THEN /\ IF sender[t].email \in DOMAIN otp_store
             THEN sender' = [sender EXCEPT ![t].pc = "del"] /\ UNCHANGED resp
             ELSE SendRespond(t, 500, "SendFailed")
          /\ UNCHANGED otp_store
     ELSE /\ otp_store' = Del(otp_store, sender[t].email)
          /\ SendRespond(t, 500, "SendFailed")
  /\ UNCHANGED <<rate_limit_store, nreq, admitted>>
  /\ UNCHANGED sframe

\* main.py lines 246-247; del raises KeyError when another thread has
\* removed the key since the test of line 245
so_del(t) ==
  /\ sender[t].pc = "del"
  /\ IF sender[t].email \in DOMAIN otp_store
     THEN /\ otp_store' = Del(otp_store, sender[t].email)
          /\ SendRespond(t, 500, "SendFailed")
     ELSE /\ SendRespond(t, 500, "Unhandled")
          /\ UNCHANGED otp_store
  /\ UNCHANGED <<rate_limit_store, nreq, admitted>>
  /\ UNCHANGED sframe

RlIn == \E t \in Threads, email \in Emails, name \in Names,
           company \in Companies : rl_in(t, email, name, company)

RlLast == \E t \in Threads : rl_last(t)

RlCount == \E t \in Threads : rl_count(t)

RlTest == \E t \in Threads : rl_test(t)

RlLoad == \E t \in Threads : rl_load(t)

RlStore == \E t \in Threads : rl_store(t)

RlStamp == \E t \in Threads : rl_stamp(t)

RlInit == \E t \in Threads : rl_init(t)

SoWrite == \E t \in Threads, otp \in GenCodes : so_write(t, otp)

SoSend == \E t \in Threads, outcome \in SendOutcomes : so_send(t, outcome)

SoRollback == \E t \in Threads : so_rollback(t)

SoDel == \E t \in Threads : so_del(t)

NextSend ==
  \/ RlIn
  \/ RlLast
  \/ RlCount
  \/ RlTest
  \/ RlLoad
  \/ RlStore
  \/ RlStamp
  \/ RlInit
  \/ SoWrite
  \/ SoSend
  \/ SoRollback
  \/ SoDel

SpecSend == Init /\ [][NextSend]_vars

\* ===================================================================== claims
\* a /verify-otp for e is being served in this step
VerifyOtpStep(e) == resp'.op = "verify-otp" /\ resp'.email = e
SendOtpStep(e) == resp'.op = "send-otp" /\ resp'.email = e
WithinTtl(e) == now <= createdAt[e] + 300

\* C1: a session entry exists for E only if an earlier /verify-otp for E
\* supplied the code of E's pending challenge while it was unexpired and had
\* fewer than 3 attempts; only a successful /verify-otp creates an entry,
\* /refresh-token creates none, and only those two write an entry's contents.
C1_SessionOnlyAfterVerify ==
  /\ [](DOMAIN user_sessions \subseteq okVerify)
  /\ [][\A e \in DOMAIN user_sessions' :
          /\ e \notin DOMAIN user_sessions =>
                VerifyOtpStep(e) /\ resp'.status = 200
          /\ (e \in DOMAIN user_sessions /\ user_sessions'[e] # user_sessions[e])
                => resp'.op \in {"verify-otp", "refresh-token"} /\ resp'.email = e
       ]_vars

C1_Witness ==
  \E e \in DOMAIN user_sessions :
    e \in okVerify /\ resp.op = "refresh-token" /\ resp.status = 200

\* C2: /verify-token given a correctly signed, unexpired token whose subject
\* has no session entry answers 401, never 200.
C2_NoSessionNoAccess ==
  [][(/\ resp'.op = "verify-token"
      /\ resp'.token.sig
      /\ now < resp'.token.exp
      /\ resp'.token.sub \notin DOMAIN user_sessions)
     => resp'.status = 401 /\ user_sessions' = user_sessions]_vars

C2_Witness ==
  /\ resp.op = "verify-token"
  /\ resp.token.sig
  /\ now < resp.token.exp
  /\ resp.token.sub \notin DOMAIN user_sessions
  /\ resp.status = 401

\* C3: after 3 consecutive wrong codes against one challenge, the 4th
\* submission within the TTL fails with the attempts-exhausted error whatever
\* code it carries, issues no token and deletes the challenge.
C3_FourthSubmissionExhausted ==
  [][\A e \in Emails :
       (VerifyOtpStep(e) /\ e \in DOMAIN otp_store /\ wrongs[e] = 3
          /\ WithinTtl(e))
       => /\ resp'.status = 400
          /\ resp'.err = "AttemptsExhausted"
          /\ resp'.access_token = BadToken
          /\ issued' = issued
          /\ user_sessions' = user_sessions
          /\ e \notin DOMAIN otp_store'
    ]_vars

C3_Witness ==
  /\ resp.op = "verify-otp"
  /\ resp.err = "AttemptsExhausted"
  /\ resp.otp = sentCode[resp.email]
  /\ wrongs[resp.email] = 3
  /\ now <= createdAt[resp.email] + 300

\* C4: a /verify-otp made more than 300 seconds after the challenge was
\* created fails with the expired error whatever the code and the attempts,
\* creates no session, and removes the challenge, so that the next
\* /verify-otp reports that no challenge exists.
C4_ExpiredChallenge ==
  [][\A e \in Emails :
       (VerifyOtpStep(e) /\ e \in DOMAIN otp_store /\ ~WithinTtl(e))
       => /\ resp'.status = 400
          /\ resp'.err = "Expired"
          /\ user_sessions' = user_sessions
          /\ e \notin DOMAIN otp_store'
          /\ \A c \in SuppliedCodes :
               verify_otp_result(otp_store', user_sessions', e, c, now').err
                 = "NoChallenge"
    ]_vars

C4_Witness ==
  /\ resp.op = "verify-otp"
  /\ resp.err = "Expired"
  /\ resp.otp = sentCode[resp.email]
  /\ wrongs[resp.email] = 0
  /\ now > createdAt[resp.email] + 300

\* C5: the exact code of a pending challenge, submitted within the 300 s
\* TTL after at most 2 failed attempts, succeeds, and the challenge is then
\* gone: resubmitting the same code fails with the no-challenge error.
C5_CorrectCodeSucceedsOnce ==
  [][\A e \in Emails :
       (VerifyOtpStep(e) /\ e \in DOMAIN otp_store
          /\ resp'.otp = otp_store[e].code /\ WithinTtl(e) /\ wrongs[e] <= 2)
       => /\ resp'.status = 200
          /\ e \in DOMAIN user_sessions'
          /\ user_sessions'[e].token = resp'.access_token
          /\ e \notin DOMAIN otp_store'
          /\ verify_otp_result(otp_store', user_sessions', e, resp'.otp,
                               now').err = "NoChallenge"
    ]_vars

C5_Witness ==
  /\ resp.op = "verify-otp"
  /\ resp.status = 200
  /\ wrongs[resp.email] = 2
  /\ now = createdAt[resp.email] + 300

\* C6: once 3 /send-otp requests have been admitted for an identity, a
\* further one arriving within 900 seconds of the first of them is rejected
\* with 429 and creates or replaces no challenge.
C6_FourthRequestRejected ==
  [][\A e \in Emails :
       (SendOtpStep(e) /\ Len(admits[e]) = 3 /\ now <= admits[e][1] + 900)
       => /\ resp'.status = 429
          /\ otp_store' = otp_store
    ]_vars

C6_Witness ==
  /\ resp.op = "send-otp"
  /\ resp.status = 429
  /\ Len(admits[resp.email]) = 3
  /\ now = admits[resp.email][1] + 900
  /\ resp.email \in DOMAIN otp_store

\* C7 as stated: the window is anchored at the first admitted request of the
\* window; a /send-otp arriving more than 900 seconds after that request is
\* admitted and resets the window to count 1 starting now.
C7_FixedWindow ==
  [][\A e \in Emails :
       (SendOtpStep(e) /\ e \in DOMAIN rate_limit_store
          /\ now > windowStart[e] + 900)
       => /\ resp'.status # 429
          /\ rate_limit_store'[e] = [last_request |-> now, count |-> 1]
    ]_vars

\* C7 amended: the window is anchored at the most recent admitted request;
\* a /send-otp arriving more than 900 seconds after the most recent admitted
\* request is admitted and resets the record to count 1 starting now, and one
\* arriving within 900 seconds of it, 3 requests having been counted, is
\* rejected however long ago the first request of the window was.
C7_WindowFromLastAdmitted ==
  [][\A e \in Emails :
       (SendOtpStep(e) /\ Len(admits[e]) > 0)
       => LET last == admits[e][Len(admits[e])]
          IN /\ now > last + 900 =>
                  /\ resp'.status # 429
                  /\ rate_limit_store'[e] = [last_request |-> now, count |-> 1]
             /\ (now <= last + 900 /\ rate_limit_store[e].count >= 3) =>
                  /\ resp'.status = 429
                  /\ rate_limit_store' = rate_limit_store
    ]_vars

C7_Witness ==
  /\ resp.op = "send-otp"
  /\ resp.status # 429
  /\ Len(admits[resp.email]) = 3
  /\ admits[resp.email][3] = now
  /\ admits[resp.email][2] > admits[resp.email][1]
  /\ now > admits[resp.email][2] + 900
  /\ rate_limit_store[resp.email] = [last_request |-> now, count |-> 1]

\* C8 as stated: whenever /send-otp ends in a send failure (the send step
\* returns failure or raises), the caller receives 500 and the ledger holds
\* no challenge for the identity afterwards, in both server variants.
C8_SendFailureLeavesNoChallenge ==
  [][\A e \in Emails :
       (SendOtpStep(e) /\ resp'.status \notin {200, 429})
       => resp'.status = 500 /\ e \notin DOMAIN otp_store'
    ]_vars

\* C9: after /logout with a valid token for E the session store holds no
\* entry for E, and every /verify-token with a token for E and every
\* /refresh-token for E answers 401, until a /verify-otp for E succeeds.
C9_LogoutRevokes ==
  \A e \in loggedOut :
    /\ e \notin DOMAIN user_sessions
    /\ (resp.op = "verify-token" /\ resp.token.sub = e) => resp.status = 401
    /\ (resp.op = "refresh-token" /\ resp.email = e) => resp.status = 401

C9_Witness ==
  /\ resp.op = "verify-token"
  /\ resp.token.sig
  /\ now < resp.token.exp
  /\ resp.token.sub \in loggedOut
  /\ resp.err = "NoSession"

\* C10 as stated: the only token /verify-token accepts for an identity is
\* the token recorded in that identity's session entry.
C10_OnlyCurrentTokenAccepted ==
  (resp.op = "verify-token" /\ resp.status = 200)
    => /\ resp.token.sub \in DOMAIN user_sessions
       /\ resp.token = user_sessions[resp.token.sub].token

\* C11: /refresh-token for E succeeds only when E has a session entry with
\* now <= expires; on success the entry is overwritten with a newly issued
\* token and expiry now + 1800; with no entry it answers 401 and the store is
\* unchanged; with an expired entry it answers 401 and deletes the entry.
C11_RefreshOutcomes ==
  [][\A e \in Emails :
       (resp'.op = "refresh-token" /\ resp'.email = e)
       => IF e \notin DOMAIN user_sessions
          THEN resp'.status = 401 /\ user_sessions' = user_sessions
          ELSE IF now > user_sessions[e].expires
          THEN resp'.status = 401 /\ e \notin DOMAIN user_sessions'
          ELSE /\ resp'.status = 200
               /\ resp'.access_token.sig
               /\ resp'.access_token.sub = e
               /\ resp'.access_token \in issued'
               /\ user_sessions'[e] =
                    [token |-> resp'.access_token, expires |-> now + 1800]
    ]_vars

C11_Witness ==
  /\ resp.op = "refresh-token"
  /\ resp.status = 401
  /\ resp.err = "SessionExpired"
  /\ resp.email \in okVerify
  /\ resp.email \notin DOMAIN user_sessions

\* C12 as stated: /verify-token called with a token issued to E after E's
\* session has expired answers 401 and deletes the session entry for E.
C12_ExpiredSessionDeleted ==
  [][(/\ resp'.op = "verify-token"
      /\ resp'.token \in issued
      /\ resp'.token.sub \in DOMAIN user_sessions
      /\ now > user_sessions[resp'.token.sub].expires)
     => /\ resp'.status = 401
        /\ resp'.token.sub \notin DOMAIN user_sessions'
    ]_vars

\* C13: /logout always answers 200; with a valid token and a session it
\* removes the session; with a valid token and no session, or an invalid or
\* expired token, it leaves the three stores unchanged; a second /logout
\* with the same token changes nothing more.
C13_LogoutIdempotent ==
  [][resp'.op = "logout"
     => LET token == resp'.token
            valid == token.sig /\ now < token.exp
        IN /\ resp'.status = 200
           /\ otp_store' = otp_store
           /\ rate_limit_store' = rate_limit_store
           /\ IF valid /\ token.sub \in DOMAIN user_sessions
              THEN /\ token.sub \notin DOMAIN user_sessions'
                   /\ \A e \in DOMAIN user_sessions \ {token.sub} :
                        /\ e \in DOMAIN user_sessions'
                        /\ user_sessions'[e] = user_sessions[e]
              ELSE user_sessions' = user_sessions
           /\ logout_result(user_sessions', token, now') = user_sessions'
    ]_vars

C13_Witness ==
  /\ resp.op = "logout"
  /\ resp.status = 200
  /\ resp.token.sig
  /\ resp.token.exp <= now
  /\ resp.token.sub \in DOMAIN user_sessions

\* C14: a /verify-otp whose code is not the code of the identity's pending
\* challenge (a code outside the generated range such as "000000" and the
\* case of no pending challenge included) answers 400, returns no token and
\* leaves the session store unchanged.
C14_WrongCodeRejected ==
  [][\A e \in Emails :
       (VerifyOtpStep(e)
          /\ (e \notin DOMAIN otp_store \/ resp'.otp # otp_store[e].code))
       => /\ resp'.status = 400
          /\ resp'.access_token = BadToken
          /\ issued' = issued
          /\ user_sessions' = user_sessions
    ]_vars

C14_Witness ==
  /\ resp.op = "verify-otp"
  /\ resp.otp = "000000"
  /\ resp.status = 400
  /\ resp.err = "Mismatch"
  /\ resp.email \in DOMAIN user_sessions

\* C15 as stated: every /verify-otp that fails because the challenge is
\* expired, exhausted or the code mismatched leaves no challenge for that
\* identity in the ledger.
C15_EveryFailureDestroys ==
  (resp.op = "verify-otp"
     /\ resp.err \in {"Expired", "AttemptsExhausted", "Mismatch"})
  => resp.email \notin DOMAIN otp_store

\* C15 amended: a /verify-otp that fails because the challenge is expired or
\* exhausted leaves no challenge for that identity; one that fails because
\* the code mismatched leaves the challenge in the ledger.
C15_ExpiredOrExhaustedDestroys ==
  resp.op = "verify-otp"
  => /\ resp.err \in {"Expired", "AttemptsExhausted"}
          => resp.email \notin DOMAIN otp_store
     /\ resp.err = "Mismatch" => resp.email \in DOMAIN otp_store

C15_Witness ==
  /\ resp.op = "verify-otp"
  /\ resp.err = "Expired"
  /\ resp.otp # sentCode[resp.email]
  /\ resp.email \notin DOMAIN otp_store

\* C16: /verify-otp decides in the order no-challenge, expired,
\* attempts-exhausted, increment attempts, compare code, the first check that
\* applies deciding (expired wins over exhausted); a call that reaches the
\* comparison adds exactly 1 to attempts, and a mismatch keeps the challenge
\* with its code and expiry unchanged.
C16_CheckOrder ==
  [][\A e \in Emails :
       VerifyOtpStep(e)
       => IF e \notin DOMAIN otp_store
          THEN resp'.err = "NoChallenge" /\ otp_store' = otp_store
          ELSE IF now > otp_store[e].expires
          THEN resp'.err = "Expired"
          ELSE IF otp_store[e].attempts >= 3
          THEN resp'.err = "AttemptsExhausted"
          ELSE IF resp'.otp # otp_store[e].code
          THEN /\ resp'.err = "Mismatch"
               /\ e \in DOMAIN otp_store'
               /\ otp_store'[e] =
                    [otp_store[e] EXCEPT !.attempts = otp_store[e].attempts + 1]
          ELSE resp'.status = 200
    ]_vars

C16_Witness ==
  /\ resp.op = "verify-otp"
  /\ resp.err = "Expired"
  /\ wrongs[resp.email] = 3
  /\ now > createdAt[resp.email] + 300

\* C17: a /send-otp denied by the rate limiter leaves the identity's
\* rate-window record, the OTP ledger and the session store as they were, so
\* denied requests do not postpone the moment the identity is admitted again.
C17_DenialChangesNothing ==
  [][\A e \in Emails :
       (SendOtpStep(e) /\ resp'.status = 429)
       => /\ rate_limit_store' = rate_limit_store
          /\ otp_store' = otp_store
          /\ user_sessions' = user_sessions
          /\ \A t \in TimePoints :
               t >= now => check_rate_limit(rate_limit_store', e, t).ok
                           = check_rate_limit(rate_limit_store, e, t).ok
    ]_vars

C17_Witness ==
  /\ resp.op = "send-otp"
  /\ resp.status = 429
  /\ rate_limit_store[resp.email].count = 3
  /\ rate_limit_store[resp.email].last_request < now

\* C18 as stated: a /send-otp arriving when exactly 900 seconds have elapsed
\* since the window start is admitted and resets the window to count 1.
C18_InclusiveBoundary ==
  [][\A e \in Emails :
       (SendOtpStep(e) /\ e \in DOMAIN rate_limit_store
          /\ now - windowStart[e] = 900)
       => /\ resp'.status # 429
          /\ rate_limit_store'[e] = [last_request |-> now, count |-> 1]
    ]_vars

\* C18 amended: the roll-over boundary is exclusive; a /send-otp arriving
\* when exactly 900 seconds have elapsed since the most recent admitted
\* request is still inside the window: it is rejected with 429 and changes
\* nothing if the count has reached 3, and otherwise it is admitted with the
\* count incremented rather than reset.
C18_ExclusiveBoundary ==
  [][\A e \in Emails :
       (SendOtpStep(e) /\ Len(admits[e]) > 0
          /\ now - admits[e][Len(admits[e])] = 900)
       => IF rate_limit_store[e].count >= 3
          THEN resp'.status = 429 /\ rate_limit_store' = rate_limit_store
          ELSE /\ resp'.status # 429
               /\ rate_limit_store'[e] =
                    [last_request |-> now,
                     count |-> rate_limit_store[e].count + 1]
    ]_vars

C18_Witness ==
  /\ resp.op = "send-otp"
  /\ resp.status = 429
  /\ Len(admits[resp.email]) = 3
  /\ now - admits[resp.email][3] = 900

\* C19 as stated: with the steps of concurrent /verify-otp requests
\* interleaved, one challenge is exchanged for a token at most once: at most
\* one request succeeds on it and at most one session write results from it.
C19_ExchangedAtMostOnce ==
  \A i \in DOMAIN uses : uses[i].written <= 1 /\ uses[i].ok <= 1

\* C20 as stated: with the steps of concurrent /verify-otp requests
\* interleaved, the supplied code is compared against one challenge's code at
\* most 3 times, and the challenge's attempts counter never exceeds 3.
C20_AtMostThreeComparisons ==
  \A i \in DOMAIN uses : uses[i].compared <= 3 /\ heap[i].attempts <= 3

\* C21 as stated: with the steps of the rate check of concurrent /send-otp
\* requests interleaved, at most 3 requests are admitted within one rate
\* window, and the recorded count never exceeds 3 and is never less than the
\* number of requests admitted.
C21_AtMostThreeAdmitted ==
  \A e \in Emails :
    /\ admitted[e] <= 3
    /\ e \in DOMAIN rate_limit_store =>
         /\ rate_limit_store[e].count <= 3
         /\ rate_limit_store[e].count >= admitted[e]

\* C22 as stated: when /send-otp requests for one identity overlap and one
\* send succeeds while the other fails, the rollback of the failed request
\* removes only the challenge that request wrote: a /send-otp that returns
\* 200 leaves a challenge for its identity in the ledger.
C22_RollbackOnlyOwnChallenge ==
  [][\A t \in Threads :
       (sender[t].pc = "send" /\ sender'[t].pc = "idle"
          /\ resp'.status = 200)
       => sender[t].email \in DOMAIN otp_store'
    ]_vars

\* C23: the rollback of a failed send does not extend to the rate limiter: a
\* /send-otp that was admitted and whose send then failed is counted in the
\* rate record although it leaves no challenge, so that once 3 admitted
\* requests of one window have all failed in the send step, the next request
\* within 900 seconds is rejected with 429 while no challenge is pending.
C23_FailedSendsStillCount ==
  [][\A e \in Emails :
       SendOtpStep(e) =>
         /\ resp'.err = "SendFailed" =>
              /\ e \notin DOMAIN otp_store'
              /\ e \in DOMAIN rate_limit_store'
              /\ rate_limit_store'[e].last_request = now
              /\ rate_limit_store'[e].count =
                   IF /\ e \in DOMAIN rate_limit_store
                      /\ now - rate_limit_store[e].last_request <= 900
                   THEN rate_limit_store[e].count + 1 ELSE 1
         /\ (failedSends[e] >= 3 /\ Len(admits[e]) = 3
               /\ now <= admits[e][1] + 900) =>
              /\ resp'.status = 429
              /\ e \notin DOMAIN otp_store
              /\ otp_store' = otp_store
    ]_vars

C23_Witness ==
  /\ resp.op = "send-otp"
  /\ resp.status = 429
  /\ failedSends[resp.email] = 3
  /\ Len(admits[resp.email]) = 3
  /\ now <= admits[resp.email][1] + 900
  /\ resp.email \notin DOMAIN otp_store
  /\ rate_limit_store[resp.email].count = 3

====
